---- MODULE Spec2Model ----
(***************************************************************************)
(* Model of the huff_tests runner (src/huff_tests/src/runner.rs) and of    *)
(* its cheat-code inspector                                                 *)
(* (src/huff_tests/src/inspectors/cheats_inspector.rs).                     *)
(*                                                                         *)
(* Strings are sequences of one-character strings, byte strings are        *)
(* sequences of integers 0..255.  A sequence built as a function is        *)
(* concatenated with <<>> so that it is held as a tuple.                    *)
(***************************************************************************)
EXTENDS Integers, Sequences, FiniteSets, TLC

(***************************************************************************)
(* Text and byte helpers                                                    *)
(***************************************************************************)

\* The lower-case digits that {:x} and hex::encode produce.
HexDigits == <<"0", "1", "2", "3", "4", "5", "6", "7",
               "8", "9", "a", "b", "c", "d", "e", "f">>

HexDigit(n) == HexDigits[n + 1]

\* hex::decode and from_str_radix accept both cases.
HexValueTable ==
    [c \in {"0", "1", "2", "3", "4", "5", "6", "7", "8", "9",
            "a", "b", "c", "d", "e", "f", "A", "B", "C", "D", "E", "F"} |->
        CASE c = "0" -> 0  [] c = "1" -> 1  [] c = "2" -> 2  [] c = "3" -> 3
          [] c = "4" -> 4  [] c = "5" -> 5  [] c = "6" -> 6  [] c = "7" -> 7
          [] c = "8" -> 8  [] c = "9" -> 9
          [] c \in {"a", "A"} -> 10 [] c \in {"b", "B"} -> 11
          [] c \in {"c", "C"} -> 12 [] c \in {"d", "D"} -> 13
          [] c \in {"e", "E"} -> 14 [] c \in {"f", "F"} -> 15]

IsHexChar(c) == c \in DOMAIN HexValueTable

HexValue(c) == HexValueTable[c]

\* format!("{n:x}"): lower-case hexadecimal without leading zeros.
RECURSIVE FormatHex(_)
FormatHex(n) ==
    IF n < 16 THEN <<HexDigit(n)>>
    ELSE FormatHex(n \div 16) \o <<HexDigit(n % 16)>>

\* huff_utils pad_n_bytes: left-pad with "0" up to 2 * num_bytes characters.
RECURSIVE pad_n_bytes(_, _)
pad_n_bytes(hex, num_bytes) ==
    IF Len(hex) < num_bytes * 2 THEN pad_n_bytes(<<"0">> \o hex, num_bytes)
    ELSE hex

\* hex::decode succeeds on an even number of hexadecimal characters.
hex_decodable(s) ==
    /\ Len(s) % 2 = 0
    /\ \A i \in 1..Len(s) : IsHexChar(s[i])

hex_decode(s) ==
    [i \in 1..(Len(s) \div 2) |->
        16 * HexValue(s[2 * i - 1]) + HexValue(s[2 * i])] \o <<>>

hex_encode(b) ==
    [i \in 1..(2 * Len(b)) |->
        IF i % 2 = 1 THEN HexDigit(b[(i + 1) \div 2] \div 16)
        ELSE HexDigit(b[i \div 2] % 16)] \o <<>>

(***************************************************************************)
(* TestRunner::deploy_code, the bootstrap constructor                       *)
(***************************************************************************)

constructor_length == 0

bootstrap_base_size == 9

\* let contract_size = if contract_length < 256 { "60.." } else { "61...." }
ContractSize(contract_length) ==
    IF contract_length < 256
    THEN <<"6", "0">> \o pad_n_bytes(FormatHex(contract_length), 1)
    ELSE <<"6", "1">> \o pad_n_bytes(FormatHex(contract_length), 2)

SizeAfterLengthNoWiden(contract_length) == bootstrap_base_size

\* bootstrap_code_size after the length push was chosen.
SizeAfterLength(contract_length) ==
    IF contract_length < 256 THEN bootstrap_base_size
    ELSE bootstrap_base_size + 1

\* let contract_code_offset = if (bootstrap_code_size + constructor_length) < 256 ..
ContractCodeOffset(bootstrap_code_size) ==
    IF bootstrap_code_size + constructor_length < 256
    THEN <<"6", "0">> \o
         pad_n_bytes(FormatHex(bootstrap_code_size + constructor_length), 1)
    ELSE <<"6", "1">> \o
         pad_n_bytes(FormatHex(bootstrap_code_size + 1 + constructor_length), 2)

BootstrapNoDup(code) ==
    ContractSize(Len(code) \div 2)
        \o ContractCodeOffset(SizeAfterLength(Len(code) \div 2))
        \o <<"3", "d", "3", "9", "3", "d", "f", "3">> \o code

\* format!("{contract_size}80{contract_code_offset}3d393df3{code}")
Bootstrap(code) ==
    ContractSize(Len(code) \div 2) \o <<"8", "0">>
        \o ContractCodeOffset(SizeAfterLength(Len(code) \div 2))
        \o <<"3", "d", "3", "9", "3", "d", "f", "3">> \o code

(***************************************************************************)
(* Execution of creation code: the opcodes the bootstrap is made of         *)
(***************************************************************************)

OP_PUSH1 == 96
OP_PUSH2 == 97
OP_DUP1 == 128
OP_RETURNDATASIZE == 61
OP_CODECOPY == 57
OP_RETURN == 243

Max(a, b) == IF a > b THEN a ELSE b

\* A machine at the start of the creation code: pc is a 0-based code offset,
\* the stack's top is its first element, memory is 0-based behind index + 1.
Machine(initcode) ==
    [code |-> initcode, pc |-> 0, stack |-> <<>>, memory |-> <<>>,
     status |-> "running", output |-> <<>>]

CodeByte(code, k) == IF k < Len(code) THEN code[k + 1] ELSE 0

MemByte(memory, k) == IF k < Len(memory) THEN memory[k + 1] ELSE 0

Step(m) ==
    LET op == CodeByte(m.code, m.pc)
        s  == m.stack
    IN  IF m.pc >= Len(m.code)
        THEN [m EXCEPT !.status = "stopped"]
        ELSE IF op = OP_PUSH1
        THEN [m EXCEPT !.stack = <<CodeByte(m.code, m.pc + 1)>> \o s,
                       !.pc = m.pc + 2]
        ELSE IF op = OP_PUSH2
        THEN [m EXCEPT !.stack = <<256 * CodeByte(m.code, m.pc + 1)
                                     + CodeByte(m.code, m.pc + 2)>> \o s,
                       !.pc = m.pc + 3]
        ELSE IF op = OP_DUP1 /\ Len(s) >= 1
        THEN [m EXCEPT !.stack = <<s[1]>> \o s, !.pc = m.pc + 1]
        ELSE IF op = OP_RETURNDATASIZE
        THEN [m EXCEPT !.stack = <<0>> \o s, !.pc = m.pc + 1]
        ELSE IF op = OP_CODECOPY /\ Len(s) >= 3
        THEN LET dest == s[1]
                 off  == s[2]
                 size == s[3]
                 top  == IF size = 0 THEN Len(m.memory)
                         ELSE Max(Len(m.memory), dest + size)
             IN  [m EXCEPT
                    !.memory = [i \in 1..top |->
                        IF i - 1 >= dest /\ i - 1 < dest + size
                        THEN CodeByte(m.code, off + (i - 1 - dest))
                        ELSE MemByte(m.memory, i - 1)] \o <<>>,
                    !.stack = SubSeq(s, 4, Len(s)),
                    !.pc = m.pc + 1]
        ELSE IF op = OP_RETURN /\ Len(s) >= 2
        THEN [m EXCEPT
                !.output = [i \in 1..s[2] |-> MemByte(m.memory, s[1] + i - 1)] \o <<>>,
                !.stack = SubSeq(s, 3, Len(s)),
                !.status = "returned"]
        ELSE [m EXCEPT !.status = "halted"]

RECURSIVE Run(_)
Run(m) == IF m.status = "running" THEN Run(Step(m)) ELSE m


(***************************************************************************)
(* CheatsInspector                                                          *)
(***************************************************************************)

ZERO == "0x0000000000000000000000000000000000000000"

CHEATS_ADDR == "0x00000000000000000000000000000000bEefbabe"

\* crate::cheats::HUFF_CHEATS_MAP: the LOG macro stores 0x01 as the key.
HUFF_CHEATS_MAP == [k \in {1} |-> "Log"]

CheatsInspector_default == [logs |-> <<>>]

\* The digits of s after its leading zeros.
RECURSIVE Significant(_)
Significant(s) ==
    IF Len(s) > 0 /\ s[1] = "0" THEN Significant(Tail(s)) ELSE s

RECURSIVE HexNumber(_, _, _)
HexNumber(s, i, acc) ==
    IF i > Len(s) THEN acc ELSE HexNumber(s, i + 1, acc * 16 + HexValue(s[i]))

\* u32::from_str_radix(s, 16): an error when the number exceeds u32::MAX,
\* which is when it has more than 8 significant hexadecimal digits.
from_str_radix16(s) ==
    IF Len(s) = 0 \/ Len(Significant(s)) > 8
    THEN [ok |-> FALSE, value |-> 0]
    ELSE [ok |-> TRUE, value |-> HexNumber(Significant(s), 1, 0)]

\* fn bytes_to_u32(b) = u32::from_str_radix(hex::encode(b), 16).unwrap_or(0)
bytes_to_u32(b) ==
    LET r == from_str_radix16(hex_encode(b))
    IN  IF r.ok THEN r.value ELSE 0

InterpreterResult(result, output, gas) ==
    [result |-> result, output |-> output, gas |-> gas]

CallOutcome(result, memory_offset) ==
    [result |-> result, memory_offset |-> memory_offset]

RevertOutcomeFreshOffset(outcome) ==
    CallOutcome(InterpreterResult("Revert", outcome.result.output,
                                  outcome.result.gas),
                [start |-> 0, end |-> 0])

\* CallOutcome::new(InterpreterResult::new(Revert, output.clone(), gas), memory_offset)
RevertOutcome(outcome) ==
    CallOutcome(InterpreterResult("Revert", outcome.result.output,
                                  outcome.result.gas),
                outcome.memory_offset)

LogEntryWrongWord(pc, input) == <<pc, hex_encode(SubSeq(input, 33, 64))>>

\* (pc, hex::encode(&inputs.input[64..96]))
LogEntry(pc, input) == <<pc, hex_encode(SubSeq(input, 65, 96))>>

\* Inspector::call_end: the inspector and the outcome it returns.
call_end(self, inputs, outcome) ==
    IF inputs.caller = CHEATS_ADDR /\ Len(inputs.input) >= 64
    THEN LET cheat_key == bytes_to_u32(SubSeq(inputs.input, 1, 32))
             pc        == bytes_to_u32(SubSeq(inputs.input, 33, 64))
         IN  IF /\ cheat_key \in DOMAIN HUFF_CHEATS_MAP
                /\ HUFF_CHEATS_MAP[cheat_key] = "Log"
             THEN IF Len(inputs.input) # 96
                  THEN [self |-> self, outcome |-> RevertOutcome(outcome)]
                  ELSE [self |-> [self EXCEPT !.logs =
                                    Append(@, LogEntry(pc, inputs.input))],
                        outcome |-> outcome]
             ELSE [self |-> self, outcome |-> outcome]
    ELSE [self |-> self, outcome |-> outcome]

\* Inspector::create_end
create_end(self, outcome) == [self |-> self, outcome |-> outcome]


(***************************************************************************)
(* The state of a TestRunner and of the call in flight                      *)
(***************************************************************************)

VARIABLES
    database,   \* TestRunner.database: balances and code, and the number of
                \* contracts the VM has created in it
    phase,      \* "idle", or "executing" while transact_commit of call runs
    inspector,  \* the CheatsInspector attached to the call in flight
    tx,         \* the arguments of the call in flight (or of the last call)
    events,     \* the call-completion events the inspector saw in this call
    hook,       \* the last inspector callback: what it received and returned
    last,       \* the last operation: its inputs, the VM outcome, its return
    before,     \* the database when the last operation began
    calls       \* the number of calls begun, by call or by run_test

vars == <<database, phase, inspector, tx, events, hook, last, before, calls>>

\* Bounds of the model.
MaxCalls == 2
MaxDeploys == 1
MaxEvents == 2
MaxExtraGas == 1
MaxFlags == 2

\* The largest balance, U256::MAX; 2^30 stands for 2^256 - 1.
U256_MAX == 2^30

Other == "0x00000000000000000000000000000000000000a1"

\* The address the VM gives the n-th contract it creates.
CreatedAddress(n) == <<"0xc0", "0xc1", "0xc2", "0xc3", "0xc4">>[n + 1]

NoAddress == "None"

Addresses ==
    {ZERO, CHEATS_ADDR, Other} \cup {CreatedAddress(n) : n \in 0..MaxDeploys}

\* InMemoryDB::default()
EmptyDB ==
    [balance |-> [a \in Addresses |-> 0],
     code    |-> [a \in Addresses |-> <<>>],
     created |-> 0]

set_balance_noop(db, address, amount) == db

\* TestRunner::set_balance: an account that does not exist yet starts from
\* DbAccount::new_not_existing(), whose fields are the defaults EmptyDB holds.
set_balance(db, address, amount) ==
    [db EXCEPT !.balance[address] = amount]

(***************************************************************************)
(* What transact_commit returns: Ok(ExecutionResult) or Err(EVMError)       *)
(***************************************************************************)

Success(kind, output, address, gas_used) ==
    [variant |-> "Success", kind |-> kind, output |-> output,
     address |-> address, reason |-> "", gas_used |-> gas_used]

Revert(output, gas_used) ==
    [variant |-> "Revert", kind |-> "", output |-> output,
     address |-> NoAddress, reason |-> "", gas_used |-> gas_used]

Halt(reason, gas_used) ==
    [variant |-> "Halt", kind |-> "", output |-> <<>>,
     address |-> NoAddress, reason |-> reason, gas_used |-> gas_used]

EVMError ==
    [variant |-> "EVMError", kind |-> "", output |-> <<>>,
     address |-> NoAddress, reason |-> "", gas_used |-> 0]

NoResult ==
    [variant |-> "", kind |-> "", output |-> <<>>,
     address |-> NoAddress, reason |-> "", gas_used |-> 0]

\* The VM commits a creation: the returned bytes become the code of the new
\* address.  With a zero gas price a failed creation moves no balance.
CommitCreate(db, er) ==
    IF er.variant = "Success" /\ er.kind = "Create" /\ er.address # NoAddress
    THEN [db EXCEPT !.code[er.address] = er.output, !.created = @ + 1]
    ELSE db

\* The VM commits a call: a successful call moves the value.
CommitCall(db, caller, address, value, er) ==
    IF er.variant = "Success" /\ caller # address
    THEN [db EXCEPT !.balance[caller] = @ - value,
                    !.balance[address] = @ + value]
    ELSE db

(***************************************************************************)
(* Results of the runner's operations                                       *)
(***************************************************************************)

None == [some |-> FALSE, hex |-> <<>>]

Some(h) == [some |-> TRUE, hex |-> h]

NoError == [msg |-> "", gas_used |-> 0, output |-> <<>>, reason |-> ""]

NoTest ==
    [name |-> "", return_data |-> None, gas |-> 0, status |-> "",
     logs |-> <<>>]

RunnerError(msg, gas_used, output, reason) ==
    [msg |-> msg, gas_used |-> gas_used, output |-> output, reason |-> reason]

Pending == [tag |-> "Pending", address |-> NoAddress, error |-> NoError,
            test |-> NoTest]

OkAddress(a) == [tag |-> "Ok", address |-> a, error |-> NoError,
                 test |-> NoTest]

OkTest(t) == [tag |-> "Ok", address |-> NoAddress, error |-> NoError,
              test |-> t]

Err(e) == [tag |-> "Err", address |-> NoAddress, error |-> e, test |-> NoTest]

\* .expect(..) on a failed hex::decode
Panic(msg) == [tag |-> "Panic", address |-> NoAddress,
               error |-> RunnerError(msg, 0, <<>>, ""), test |-> NoTest]

DeployReturnHaltUnexpected(er) ==
    IF er.variant = "EVMError"
    THEN Err(RunnerError("EVMError", 0, <<>>, ""))
    ELSE IF er.variant = "Success" /\ er.kind = "Create"
            /\ er.address # NoAddress
    THEN OkAddress(er.address)
    ELSE IF er.variant = "Revert"
    THEN Err(RunnerError("Deployment reverted", er.gas_used, er.output, ""))
    ELSE Err(RunnerError("Unexpected transaction status", 0, <<>>, ""))

\* deploy_code, from transact_commit's return to its own
DeployReturn(er) ==
    IF er.variant = "EVMError"
    THEN Err(RunnerError("EVMError", 0, <<>>, ""))
    ELSE IF er.variant = "Success" /\ er.kind = "Create"
            /\ er.address # NoAddress
    THEN OkAddress(er.address)
    ELSE IF er.variant = "Revert"
    THEN Err(RunnerError("Deployment reverted", er.gas_used, er.output, ""))
    ELSE IF er.variant = "Halt"
    THEN Err(RunnerError("Deployment halted", er.gas_used, <<>>, er.reason))
    ELSE Err(RunnerError("Unexpected transaction status", 0, <<>>, ""))

CALL_BASE_COST == 21000

TestGasRaw(gas_used) == gas_used

\* gas: gas_used - 21000
TestGas(gas_used) == gas_used - CALL_BASE_COST

StatusOfAlwaysSuccess(er) == "Success"

\* let status = match er { Success { .. } => Success, _ => Revert }
StatusOf(er) == IF er.variant = "Success" THEN "Success" ELSE "Revert"

\* if b.is_empty() { None } else { Some(hex::encode(b)) }
ReturnData(output) == IF Len(output) = 0 THEN None ELSE Some(hex_encode(output))

\* call, from transact_commit's return to its own
CallReturn(name, er, logs) ==
    IF er.variant = "EVMError"
    THEN Err(RunnerError("EVMError", 0, <<>>, ""))
    ELSE IF er.variant \notin {"Success", "Revert"}
    THEN Err(RunnerError("Unexpected transaction status", 0, <<>>, ""))
    ELSE IF er.variant = "Success" /\ er.kind # "Call"
    THEN Err(RunnerError("Unexpected transaction kind", 0, <<>>, ""))
    ELSE OkTest([name        |-> name,
                 return_data |-> ReturnData(er.output),
                 gas         |-> TestGas(er.gas_used),
                 status      |-> StatusOf(er),
                 logs        |-> logs])


(***************************************************************************)
(* run_test: the decorator's flags                                          *)
(***************************************************************************)

CalldataFlag(text) == [kind |-> "Calldata", text |-> text, bytes |-> <<>>]

ValueFlag(bytes) == [kind |-> "Value", text |-> <<>>, bytes |-> bytes]

\* if let Some(s) = s.strip_prefix("0x") { s.to_owned() } else { s.to_owned() }
strip_prefix_0x(s) ==
    IF Len(s) >= 2 /\ s[1] = "0" /\ s[2] = "x"
    THEN SubSeq(s, 3, Len(s))
    ELSE s

\* U256::from_be_bytes: the first byte is the most significant.
RECURSIVE from_be_bytes_acc(_, _, _)
from_be_bytes_acc(v, i, acc) ==
    IF i > Len(v) THEN acc
    ELSE from_be_bytes_acc(v, i + 1, acc * 256 + v[i])

from_be_bytes(v) == from_be_bytes_acc(v, 1, 0)

ApplyFlagKeepFirst(cfg, flag) ==
    IF flag.kind = "Calldata"
    THEN IF cfg.data = <<>>
         THEN [cfg EXCEPT !.data = strip_prefix_0x(flag.text)] ELSE cfg
    ELSE IF cfg.value = 0
         THEN [cfg EXCEPT !.value = from_be_bytes(flag.bytes)] ELSE cfg

\* One turn of "for flag in &decorator.flags { match flag { .. } }".
ApplyFlag(cfg, flag) ==
    IF flag.kind = "Calldata"
    THEN [cfg EXCEPT !.data = strip_prefix_0x(flag.text)]
    ELSE [cfg EXCEPT !.value = from_be_bytes(flag.bytes)]

RECURSIVE ApplyFlags(_, _, _)
ApplyFlags(flags, i, cfg) ==
    IF i > Len(flags) THEN cfg
    ELSE ApplyFlags(flags, i + 1, ApplyFlag(cfg, flags[i]))

\* let mut data = String::default(); let mut value = U256::ZERO; if let Some(..)
DecoratorConfig(m) ==
    IF m.decorator.some
    THEN ApplyFlags(m.decorator.flags, 1, [data |-> <<>>, value |-> 0])
    ELSE [data |-> <<>>, value |-> 0]

(***************************************************************************)
(* Operations                                                               *)
(***************************************************************************)

NoTx == [name |-> "", caller |-> NoAddress, address |-> NoAddress,
         value |-> 0, data |-> <<>>]

NoInputs == [caller |-> NoAddress, target |-> NoAddress, input |-> <<>>]

NoHook == [kind |-> "none", inputs |-> NoInputs]

NoMacro == [name |-> "", decorator |-> [some |-> FALSE, flags |-> <<>>]]

NoOp == [op |-> "none", stage |-> "", code |-> <<>>, bootstrap |-> <<>>,
         macro |-> NoMacro, er |-> NoResult, ret |-> Pending]

Init ==
    /\ database = EmptyDB
    /\ phase = "idle"
    /\ inspector = CheatsInspector_default
    /\ tx = NoTx
    /\ events = <<>>
    /\ hook = NoHook
    /\ last = NoOp
    /\ before = EmptyDB
    /\ calls = 0

DeployGas == CALL_BASE_COST + 32000

\* What the VM may return for a creation; a success with a created address
\* returns what running the creation code returned.
CreateResults(db, code) ==
    LET m == IF hex_decodable(Bootstrap(code))
             THEN Run(Machine(hex_decode(Bootstrap(code))))
             ELSE [Machine(<<>>) EXCEPT !.status = "halted"]
    IN  (IF m.status = "returned"
         THEN {Success("Create", m.output, CreatedAddress(db.created),
                       DeployGas)}
         ELSE {})
        \cup {Success("Create", <<>>, NoAddress, DeployGas),
              Success("Call", <<>>, NoAddress, DeployGas),
              Revert(<<>>, DeployGas),
              Halt("CreateContractSizeLimit", DeployGas),
              EVMError}

\* deploy_code: the database it leaves and what it returns.
deploy_code(db, code, er) ==
    IF ~hex_decodable(Bootstrap(code))
    THEN [db |-> db, ret |-> Panic("Invalid hex"), bootstrap |-> Bootstrap(code)]
    ELSE [db        |-> CommitCreate(set_balance(db, ZERO, U256_MAX), er),
          ret       |-> DeployReturn(er),
          bootstrap |-> Bootstrap(code)]

DeployCode(code) ==
    /\ phase = "idle"
    /\ database.created < MaxDeploys
    /\ \E er \in CreateResults(database, code) :
         LET d == deploy_code(database, code, er)
         IN  /\ database' = d.db
             /\ last' = [NoOp EXCEPT !.op = "deploy_code", !.stage = "deploy",
                                     !.code = code, !.bootstrap = d.bootstrap,
                                     !.er = er, !.ret = d.ret]
    /\ before' = database
    /\ UNCHANGED <<phase, inspector, tx, events, hook, calls>>

\* call, up to the moment transact_commit runs the VM.
BeginCall(db, record, name, caller, address, value, data) ==
    IF ~hex_decodable(data)
    THEN /\ database' = db
         /\ last' = [record EXCEPT !.stage = "call",
                                   !.ret = Panic("Invalid calldata")]
         /\ tx' = [name |-> name, caller |-> caller, address |-> address,
                   value |-> value, data |-> data]
         /\ UNCHANGED <<phase, inspector, events, hook>>
    ELSE /\ database' = set_balance(db, caller, U256_MAX)
         /\ last' = [record EXCEPT !.stage = "call"]
         /\ tx' = [name |-> name, caller |-> caller, address |-> address,
                   value |-> value, data |-> data]
         /\ phase' = "executing"
         /\ inspector' = CheatsInspector_default
         /\ events' = <<>>
         /\ hook' = NoHook

CallBegin(name, caller, address, value, data) ==
    /\ phase = "idle"
    /\ calls < MaxCalls
    /\ BeginCall(database, [NoOp EXCEPT !.op = "call"],
                 name, caller, address, value, data)
    /\ before' = database
    /\ calls' = calls + 1

\* The VM completes a call frame and hands it to the inspector.
CallEndHook(inputs, outcome) ==
    /\ phase = "executing"
    /\ Len(events) < MaxEvents
    /\ LET r == call_end(inspector, inputs, outcome)
       IN  /\ inspector' = r.self
           /\ hook' = [kind |-> "call_end", inputs |-> inputs,
                       received |-> outcome, returned |-> r.outcome]
    /\ events' = Append(events, inputs)
    /\ UNCHANGED <<database, phase, tx, last, before, calls>>

\* The VM completes a create frame and hands it to the inspector.
CreateEndHook(outcome) ==
    /\ phase = "executing"
    /\ LET r == create_end(inspector, outcome)
       IN  /\ inspector' = r.self
           /\ hook' = [kind |-> "create_end", inputs |-> NoInputs,
                       received |-> outcome, returned |-> r.outcome]
    /\ UNCHANGED <<database, phase, tx, events, last, before, calls>>

\* transact_commit returns and call builds its return value.
CallFinish(er) ==
    /\ phase = "executing"
    /\ er.variant = "Success" =>
         database.balance[tx.address] + tx.value <= U256_MAX
    /\ database' = CommitCall(database, tx.caller, tx.address, tx.value, er)
    /\ last' = [last EXCEPT !.er = er,
                            !.ret = CallReturn(tx.name, er, inspector.logs)]
    /\ phase' = "idle"
    /\ UNCHANGED <<inspector, tx, events, hook, before, calls>>

CodegenError(where) == RunnerError("CodegenError", 0, <<>>, where)

\* run_test, up to the moment transact_commit of its call runs the VM.
RunTest(m, compiled) ==
    /\ phase = "idle"
    /\ calls < MaxCalls
    /\ database.created < MaxDeploys
    /\ before' = database
    /\ calls' = calls + 1
    /\ IF compiled.tag # "Ok"
       THEN /\ last' = [NoOp EXCEPT !.op = "run_test", !.stage = "compile",
                                    !.macro = m,
                                    !.ret = Err(CodegenError(compiled.tag))]
            /\ UNCHANGED <<database, phase, inspector, tx, events, hook>>
       ELSE \E er \in CreateResults(database, compiled.bytecode) :
              LET d == deploy_code(database, compiled.bytecode, er)
                  record == [NoOp EXCEPT !.op = "run_test", !.stage = "deploy",
                                         !.macro = m,
                                         !.code = compiled.bytecode,
                                         !.bootstrap = d.bootstrap,
                                         !.er = er, !.ret = d.ret]
                  cfg == DecoratorConfig(m)
              IN  IF d.ret.tag # "Ok"
                  THEN /\ database' = d.db
                       /\ last' = record
                       /\ UNCHANGED <<phase, inspector, tx, events, hook>>
                  ELSE BeginCall(d.db, [record EXCEPT !.ret = Pending],
                                 m.name, ZERO, d.ret.address,
                                 cfg.value, cfg.data)


(***************************************************************************)
(* Inputs                                                                   *)
(***************************************************************************)

\* The 32-byte big-endian word of n, for n < 2^31.
Word(n) ==
    [i \in 1..32 |-> IF i <= 28 THEN 0 ELSE (n \div 256^(32 - i)) % 256] \o <<>>

\* 2^32 + 5, a word that does not fit in 32 bits.
WordOver32 == [i \in 1..32 |-> IF i = 28 THEN 1 ELSE IF i = 32 THEN 5 ELSE 0] \o <<>>

\* 2^256 - 1
WordMax == [i \in 1..32 |-> 255] \o <<>>

\* 0x0102030405..20
Payload1 == [i \in 1..32 |-> i] \o <<>>

Payload2 == [i \in 1..32 |-> 171] \o <<>>

\* Runtime code of a given length with varied bytes, as compiled hex.
CodeOf(length) == hex_encode([i \in 1..length |-> (7 * i + length) % 256] \o <<>>)

Codes == {<<>>, <<"0", "0">>}

Names == {"TEST"}

\* The calls the model makes: with and without value and calldata, and one
\* whose calldata is not hexadecimal bytes.
CallTxs ==
    [name : Names, caller : {ZERO, Other}, address : {CreatedAddress(0)},
     value : {0, 1}, data : {<<>>}]
    \cup [name : Names, caller : {ZERO}, address : {CreatedAddress(0)},
          value : {0}, data : {<<"a", "b">>, <<"a">>}]

GasUsed == {CALL_BASE_COST + d : d \in 0..MaxExtraGas}

\* What the VM may return for a call.
CallResults ==
    {Success("Call", out, NoAddress, g) : out \in {<<>>, <<171>>}, g \in GasUsed}
    \cup {Revert(out, CALL_BASE_COST + MaxExtraGas) : out \in {<<>>, <<171>>}}
    \cup {Success("Create", <<>>, NoAddress, CALL_BASE_COST),
          Halt("OutOfGas", CALL_BASE_COST),
          EVMError}

CallOutcomes ==
    {CallOutcome(InterpreterResult("Return", <<>>, 100), [start |-> 0, end |-> 0]),
     CallOutcome(InterpreterResult("Stop", <<1>>, 50), [start |-> 64, end |-> 96]),
     CallOutcome(InterpreterResult("Revert", <<>>, 7), [start |-> 0, end |-> 32])}

CreateOutcomes ==
    {[result |-> InterpreterResult("Return", <<>>, 100), address |-> Other],
     [result |-> InterpreterResult("Revert", <<>>, 7), address |-> NoAddress]}

CallInputs(caller, target, input) ==
    [caller |-> caller, target |-> target, input |-> input]

\* The calldata of the cheat-code calls the model makes.
LogCalldata == Word(1) \o Word(10) \o Payload1

CheatCalldatas ==
    {LogCalldata,
     Word(1) \o WordOver32 \o Payload2,
     Word(1) \o Word(7) \o SubSeq(Payload1, 1, 31),
     Word(1) \o Word(7) \o Payload1 \o <<0>>,
     Word(1) \o Word(7),
     Word(2) \o Word(10) \o Payload1,
     WordMax \o Word(10) \o Payload1,
     SubSeq(Word(1) \o Word(10), 1, 63)}

\* Frames the sentinel is the caller of, and the LOG macro's frame, which
\* the contract under test is the caller of and the sentinel the target.
CheatCalls ==
    {CallInputs(CHEATS_ADDR, CreatedAddress(0), d) : d \in CheatCalldatas}
    \cup {CallInputs(CreatedAddress(0), CHEATS_ADDR, LogCalldata)}

\* The frame of the transaction itself.
TopFrame == CallInputs(tx.caller, tx.address, hex_decode(tx.data))

Flags ==
    {CalldataFlag(<<"0", "x", "A", "B">>),
     CalldataFlag(<<"c", "d">>),
     CalldataFlag(<<"0", "x", "0", "x", "e", "f">>),
     ValueFlag(Word(1)),
     ValueFlag(Word(258))}

RECURSIVE SeqsUpTo(_, _)
SeqsUpTo(S, n) ==
    IF n = 0 THEN {<<>>}
    ELSE SeqsUpTo(S, n - 1)
         \cup {Append(q, x) : q \in SeqsUpTo(S, n - 1), x \in S}

Macro(flags) == [name |-> "TEST", decorator |-> [some |-> TRUE, flags |-> flags]]

Macros ==
    {NoMacro, Macro(<<CalldataFlag(<<"0", "x", "A", "B">>), ValueFlag(Word(1))>>)}

DecoratedMacros == {Macro(f) : f \in SeqsUpTo(Flags, MaxFlags)}

Compiled(bytecode) == [tag |-> "Ok", bytecode |-> bytecode]

CompileResults ==
    {Compiled(c) : c \in Codes}
    \cup {[tag |-> "macro_to_bytecode", bytecode |-> <<>>],
          [tag |-> "gen_table_bytecode", bytecode |-> <<>>]}

(***************************************************************************)
(* Specifications                                                           *)
(***************************************************************************)

\* The runner: deployments, calls and tests in any order.
Next ==
    \/ \E code \in Codes : DeployCode(code)
    \/ \E c \in CallTxs : CallBegin(c.name, c.caller, c.address, c.value, c.data)
    \/ events = <<>> /\ CallEndHook(TopFrame, CHOOSE o \in CallOutcomes : TRUE)
    \/ \E er \in CallResults : CallFinish(er)
    \/ \E m \in Macros, c \in CompileResults : RunTest(m, c)

Spec == Init /\ [][Next]_vars

\* The inspector: one contract, called from the zero address or from the
\* sentinel, with cheat-code frames completing in any order.
NextHook ==
    \/ last.op = "none" /\ DeployCode(<<"0", "0">>)
    \/ /\ database.created = 1
       /\ \E caller \in {ZERO, CHEATS_ADDR} :
            CallBegin("TEST", caller, CreatedAddress(0), 0, <<>>)
    \/ \E i \in CheatCalls, o \in CallOutcomes : CallEndHook(i, o)
    \/ \E o \in CreateOutcomes : CreateEndHook(o)
    \/ \E er \in {Success("Call", <<>>, NoAddress, CALL_BASE_COST),
                  Revert(<<>>, CALL_BASE_COST)} : CallFinish(er)

SpecHook == Init /\ [][NextHook]_vars

\* The bootstrap: one deployment of runtime code of each length.
MaxCodeLength == 300

BootLengths == (0..MaxCodeLength) \cup {4095, 65535}

NextBoot ==
    /\ last.op = "none"
    /\ \E length \in BootLengths : DeployCode(CodeOf(length))

SpecBoot == Init /\ [][NextBoot]_vars

\* The decorator: tests of macros with every list of flags.
NextDecor ==
    \/ calls = 0 /\ \E m \in DecoratedMacros : RunTest(m, Compiled(<<"0", "0">>))
    \/ CallFinish(Success("Call", <<>>, NoAddress, CALL_BASE_COST))

SpecDecor == Init /\ [][NextDecor]_vars


(***************************************************************************)
(* Properties                                                               *)
(***************************************************************************)

\* call has returned a Test Result or an error.
CallReturned ==
    phase = "idle" /\ last.stage = "call" /\ last.ret.tag \in {"Ok", "Err"}

\* The integer a byte string holds, least significant byte last.
RECURSIVE BigEndian(_)
BigEndian(w) ==
    IF Len(w) = 0 THEN 0
    ELSE w[Len(w)] + 256 * BigEndian(SubSeq(w, 1, Len(w) - 1))

\* The integer a 32-byte word holds, or 0 when it does not fit in 32 bits.
WordAsU32(w) ==
    IF \A i \in 1..(Len(w) - 4) : w[i] = 0
    THEN BigEndian(SubSeq(w, Len(w) - 3, Len(w)))
    ELSE 0

KeyIsLog(w) ==
    /\ WordAsU32(w) \in DOMAIN HUFF_CHEATS_MAP
    /\ HUFF_CHEATS_MAP[WordAsU32(w)] = "Log"

LowerHex(h) == \A j \in 1..Len(h) : \E n \in 0..15 : h[j] = HexDigits[n + 1]

---------------------------------------------------------------------------
\* C1: a call of a deployed contract that makes exactly one Log-protocol
\* call to the sentinel address (the contract is the frame's caller, the
\* sentinel its target; 96 bytes: key Log, pc 10, one payload word) returns
\* a Test Result whose logs are exactly <<(10, hex of the payload)>>.
FramesToSentinel == SelectSeq(events, LAMBDA e : e.target = CHEATS_ADDR)

C1_LogCallIsRecorded ==
    ( /\ CallReturned
      /\ last.ret.tag = "Ok"
      /\ database.code[tx.address] # <<>>
      /\ \A k \in 1..Len(events) : events[k].caller # CHEATS_ADDR
      /\ Len(FramesToSentinel) = 1
      /\ FramesToSentinel[1].caller = tx.address
      /\ FramesToSentinel[1].input = Word(1) \o Word(10) \o Payload1 )
    => last.ret.test.logs = <<<<10, hex_encode(Payload1)>>>>

---------------------------------------------------------------------------
\* C2: the logs of a call are, in event order, one entry per call-completion
\* event whose caller is the sentinel, whose calldata is exactly 96 bytes and
\* whose key word maps to Log: (pc word as u32 or 0, lower-case hex of the
\* payload word).  They start empty with the call, no other event changes
\* them, and the Test Result carries them.
IsLogEvent(e) ==
    /\ e.caller = CHEATS_ADDR
    /\ Len(e.input) = 96
    /\ KeyIsLog(SubSeq(e.input, 1, 32))

LogsMatch(logs, evs) ==
    LET q == SelectSeq(evs, IsLogEvent)
    IN  /\ Len(logs) = Len(q)
        /\ \A k \in 1..Len(q) :
             /\ logs[k][1] = WordAsU32(SubSeq(q[k].input, 33, 64))
             /\ Len(logs[k][2]) = 64
             /\ LowerHex(logs[k][2])
             /\ hex_decode(logs[k][2]) = SubSeq(q[k].input, 65, 96)

---------------------------------------------------------------------------
\* C3: call_end returns another outcome than it received only for a frame
\* whose caller is the sentinel, with at least 64 bytes of calldata, a key
\* that maps to Log and a length other than 96; the outcome is then Revert
\* with the gas, memory offset and output it received.  Every other frame's
\* outcome, and every create_end outcome, is returned as received.
IsBadLog(i) ==
    /\ i.caller = CHEATS_ADDR
    /\ Len(i.input) >= 64
    /\ KeyIsLog(SubSeq(i.input, 1, 32))
    /\ Len(i.input) # 96

---------------------------------------------------------------------------
\* C4: the header of the bootstrap (the bytes before the runtime code) is
\* a length push, DUP1, an offset push and 3d 39 3d f3; the length push is
\* PUSH1 (0x60) when the length is < 256 and PUSH2 (0x61) otherwise, the
\* offset push is PUSH1 when the offset is < 256 and PUSH2 otherwise, and
\* the offset pushed is the header's own length.  Length 0 is accepted.
C4_HeaderIsSelfConsistent ==
    last.op = "deploy_code" =>
      LET length == Len(last.code) \div 2
          bytes  == hex_decode(last.bootstrap)
          header == SubSeq(bytes, 1, Len(bytes) - length)
          lw     == IF length < 256 THEN 1 ELSE 2
          ow     == Len(header) - lw - 7
          offset == BigEndian(SubSeq(header, lw + 4, lw + 3 + ow))
      IN  /\ last.ret.tag # "Panic"
          /\ ow \in {1, 2}
          /\ header[1] = 95 + lw
          /\ BigEndian(SubSeq(header, 2, lw + 1)) = length
          /\ header[lw + 2] = 128
          /\ header[lw + 3] = 95 + ow
          /\ ow = 1 <=> offset < 256
          /\ offset = Len(header)
          /\ SubSeq(header, lw + ow + 4, Len(header)) = <<61, 57, 61, 243>>
          /\ SubSeq(bytes, Len(header) + 1, Len(bytes)) = hex_decode(last.code)

\* A deployment of 256 bytes of code, the first length that needs PUSH2.
C4_Witness ==
    /\ last.op = "deploy_code"
    /\ Len(last.code) = 512
    /\ SubSeq(last.bootstrap, 1, 6) = <<"6", "1", "0", "1", "0", "0">>

---------------------------------------------------------------------------
\* C5: run as creation code, the bootstrap of runtime code C copies exactly
\* the bytes of C to memory and returns them, and a deployment that
\* succeeds stores exactly C at the address it returns.
C5_RoundTrip ==
    last.op = "deploy_code" =>
      LET C == hex_decode(last.code)
          m == Run(Machine(hex_decode(last.bootstrap)))
      IN  /\ m.status = "returned"
          /\ m.memory = C
          /\ m.output = C
          /\ last.ret.tag = "Ok" => database.code[last.ret.address] = C

\* A deployment of the longest code succeeded.
C5_Witness ==
    /\ last.op = "deploy_code"
    /\ last.ret.tag = "Ok"
    /\ Len(database.code[last.ret.address]) = 65535
    /\ database.code[last.ret.address][65535] = (7 * 65535 + 65535) % 256

---------------------------------------------------------------------------
\* C6: the gas of a Test Result is the VM's gas_used less 21000, is not
\* negative, and is 0 for a gas_used of 21000.
C6_GasLessBaseCost ==
    (CallReturned /\ last.ret.tag = "Ok") =>
      /\ last.ret.test.gas = last.er.gas_used - 21000
      /\ last.ret.test.gas >= 0
      /\ last.er.gas_used = 21000 => last.ret.test.gas = 0

C6_Witness ==
    /\ CallReturned
    /\ last.ret.tag = "Ok"
    /\ last.er.gas_used = 21001
    /\ last.ret.test.gas = 1

---------------------------------------------------------------------------
\* C7 as stated: for every VM outcome of a call (Success, Revert or Halt)
\* call returns a Test Result, whose status is Success iff the outcome is
\* Success and whose return_data is the hex of the output or None, except
\* that a Success output that is not of Call kind gives an error.
ResultFollows(er, test) ==
    /\ test.status = (IF er.variant = "Success" THEN "Success" ELSE "Revert")
    /\ test.return_data.some <=> er.output # <<>>
    /\ test.return_data.some =>
         /\ LowerHex(test.return_data.hex)
         /\ hex_decode(test.return_data.hex) = er.output

C7_EveryOutcomeGivesResult ==
    (CallReturned /\ last.er.variant \in {"Success", "Revert", "Halt"}) =>
      IF last.er.variant = "Success" /\ last.er.kind # "Call"
      THEN last.ret.tag = "Err"
      ELSE last.ret.tag = "Ok" /\ ResultFollows(last.er, last.ret.test)

\* C7 as amended: a Success of Call kind or a Revert gives a Test Result with
\* that status and return_data; a Success that is not of Call kind gives the
\* error "Unexpected transaction kind", a Halt the error "Unexpected
\* transaction status".
C7_SuccessOrRevertGivesResult ==
    (CallReturned /\ last.er.variant \in {"Success", "Revert", "Halt"}) =>
      IF last.er.variant = "Halt"
      THEN /\ last.ret.tag = "Err"
           /\ last.ret.error.msg = "Unexpected transaction status"
      ELSE IF last.er.variant = "Success" /\ last.er.kind # "Call"
      THEN /\ last.ret.tag = "Err"
           /\ last.ret.error.msg = "Unexpected transaction kind"
      ELSE last.ret.tag = "Ok" /\ ResultFollows(last.er, last.ret.test)

\* A reverted call with output returned a Test Result.
C7_Witness ==
    /\ CallReturned
    /\ last.er.variant = "Revert"
    /\ last.ret.tag = "Ok"
    /\ last.ret.test.status = "Revert"
    /\ last.ret.test.return_data = Some(<<"a", "b">>)

---------------------------------------------------------------------------
\* C8: deploy_code returns an address iff the VM outcome is a Success with a
\* created address, and then that address; Revert gives "Deployment
\* reverted" with gas_used and the output, Halt "Deployment halted" with
\* gas_used and the reason, any other outcome "Unexpected transaction status".
C8_DeployOutcome ==
    (last.op = "deploy_code" /\ last.er.variant \in {"Success", "Revert", "Halt"}) =>
      LET er  == last.er
          ret == last.ret
          created == er.variant = "Success" /\ er.kind = "Create"
                     /\ er.address # NoAddress
      IN  /\ ret.tag = "Ok" <=> created
          /\ created => ret.address = er.address
          /\ er.variant = "Revert" =>
               /\ ret.error.msg = "Deployment reverted"
               /\ ret.error.gas_used = er.gas_used
               /\ ret.error.output = er.output
          /\ er.variant = "Halt" =>
               /\ ret.error.msg = "Deployment halted"
               /\ ret.error.gas_used = er.gas_used
               /\ ret.error.reason = er.reason
          /\ (er.variant = "Success" /\ ~created) =>
               ret.error.msg = "Unexpected transaction status"

C8_Witness ==
    /\ last.op = "deploy_code"
    /\ last.er.variant = "Halt"
    /\ last.ret.tag = "Err"
    /\ last.ret.error.msg = "Deployment halted"
    /\ last.ret.error.gas_used = DeployGas

---------------------------------------------------------------------------
\* The VM committed a successful call, whose value it moved.
CallCommitted == last.stage = "call" /\ last.er.variant = "Success"

Sender == IF last.op = "call" THEN tx.caller ELSE ZERO

Returned == phase = "idle" /\ last.ret.tag = "Err"

\* C9 as stated: an operation that returns an error leaves every balance
\* as it was before the operation, apart from what the VM committed.
C9_ErrorLeavesBalances ==
    (Returned /\ ~CallCommitted) => database.balance = before.balance

\* C9 as amended: an operation that returns an error leaves the balances as
\* they were, apart from what the VM committed and from the balance of the
\* transaction's sender, which the harness set to U256::MAX before it
\* submitted the transaction; a run_test whose compilation fails leaves the
\* whole account store as it was.
C9_ErrorLeavesOtherBalances ==
    Returned =>
      /\ last.stage = "compile" => database = before
      /\ (last.stage # "compile" /\ ~CallCommitted) =>
           \A a \in Addresses :
             database.balance[a] =
               IF a = Sender THEN U256_MAX ELSE before.balance[a]
      /\ CallCommitted =>
           \A a \in Addresses \ {Sender, tx.address} :
             database.balance[a] = before.balance[a]

\* A deployment reverted on a store in which the zero address had nothing.
C9_Witness ==
    /\ Returned
    /\ last.op = "deploy_code"
    /\ last.er.variant = "Revert"
    /\ before.balance[ZERO] = 0
    /\ database.balance[ZERO] = U256_MAX

---------------------------------------------------------------------------
\* C10: run_test calls the deployed contract with the text of the last
\* Calldata flag less one leading "0x" (empty without such a flag) and the
\* big-endian integer of the last Value flag (zero without such a flag).
FlagsOf(m) == IF m.decorator.some THEN m.decorator.flags ELSE <<>>

LastOf(flags, kind) ==
    LET at == {k \in 1..Len(flags) : flags[k].kind = kind}
    IN  IF at = {} THEN 0 ELSE CHOOSE k \in at : \A j \in at : j <= k

IsTextLessPrefix(data, text) ==
    \/ text = <<"0", "x">> \o data
    \/ data = text /\ ~(Len(text) >= 2 /\ SubSeq(text, 1, 2) = <<"0", "x">>)

C10_LastFlagWins ==
    (last.op = "run_test" /\ last.stage = "call") =>
      LET flags == FlagsOf(last.macro)
          c == LastOf(flags, "Calldata")
          v == LastOf(flags, "Value")
      IN  /\ tx.caller = ZERO
          /\ database.code[tx.address] = hex_decode(last.code)
          /\ IF c = 0 THEN tx.data = <<>>
             ELSE IsTextLessPrefix(tx.data, flags[c].text)
          /\ IF v = 0 THEN tx.value = 0
             ELSE tx.value = BigEndian(flags[v].bytes)

\* Two flags of each kind, the later ones used.
C10_Witness ==
    /\ last.op = "run_test"
    /\ last.stage = "call"
    /\ FlagsOf(last.macro) = <<CalldataFlag(<<"c", "d">>),
                               CalldataFlag(<<"0", "x", "A", "B">>)>>
    /\ tx.data = <<"A", "B">>
    /\ CallReturned

C10_WitnessValue ==
    /\ last.op = "run_test"
    /\ last.stage = "call"
    /\ FlagsOf(last.macro) = <<ValueFlag(Word(258)), ValueFlag(Word(1))>>
    /\ tx.value = 1

====
